---- MODULE Spec2Model ----
(***************************************************************************)
(* State-machine model of the FacultyRoutine component                     *)
(* (src/components/FacultyRoutine.jsx): the teacher catalog scan, the      *)
(* per-selection schedule scan with its cancellation flag, the load-limit  *)
(* read and write, and the values the render derives from the state.       *)
(* Every await of the component is a yield point: an action runs a handler *)
(* from one await to the next.                                             *)
(***************************************************************************)
EXTENDS Integers, Sequences, FiniteSets, TLC

VARIABLES
    subjectsCol,      \* store: subjects/* with their teachers sub-collections
    routinesCol,      \* store: routines/* documents, in listing order
    periodsCol,       \* store: routines/{r}/{day}/* documents, in listing order
    teachersCol,      \* store: teachers/{id} documents
    teachers,         \* useState([])   { id, name }
    loadingTeachers,  \* useState(true)
    selectedTeacher,  \* useState(null) { value, label }
    loadingSchedule,  \* useState(false)
    teacherSchedule,  \* useState({})   dayKey -> period -> entries
    error,            \* useState(null)
    limitModalOpen,   \* useState(false)
    limitInputValue,  \* useState("")
    loadLimit,        \* useState(null)
    limitLoading,     \* useState(false)
    limitSaving,      \* useState(false)
    catalog,          \* the loadTeachers() call of the mount effect
    builds,           \* every loadTeacherAssignments() call, oldest first
    fetches,          \* every fetchLimit() call, oldest first
    saves,            \* every saveLimit()/clearLimit() call, oldest first
    publishedBy,      \* history: the scan whose index is exposed (0: none)
    nSelections,      \* number of selection changes so far
    nEdits,           \* number of edits other clients made to the store
    authUser,         \* useAuth().user: somebody is signed in
    authLoading,      \* useAuth().loading: the auth state is not known yet
    location,         \* useLocation(): pathname, search and state.from
    email,            \* Login: useState("")
    password,         \* Login: useState("")
    loginLoading,     \* Login: loading, useState(false)
    loginError,       \* Login: error, useState(null)
    signIn            \* the handleSubmit() call last made

routineVars == <<subjectsCol, routinesCol, periodsCol, teachersCol, teachers,
                 loadingTeachers, selectedTeacher, loadingSchedule, teacherSchedule,
                 error, limitModalOpen, limitInputValue, loadLimit, limitLoading,
                 limitSaving, catalog, builds, fetches, saves, publishedBy, nSelections,
                 nEdits>>

loginVars == <<authUser, authLoading, location, email, password, loginLoading,
               loginError, signIn>>

vars == <<routineVars, loginVars>>

storeVars == <<subjectsCol, routinesCol, periodsCol, teachersCol>>
limitVars == <<limitModalOpen, limitInputValue, loadLimit, limitLoading, limitSaving>>
catalogVars == <<teachers, loadingTeachers, catalog>>

-----------------------------------------------------------------------------
(* Bounds of the model.                                                    *)

MaxSelections == 2
MaxEdits == 1
MaxRecords == 2
MaxSaves == 1
\* The period records of the stores the load is computed over.
MaxEntries == 5
\* The subjects of the stores the catalog is resolved over.
MaxSubjects == 2
MaxWrites == 2

-----------------------------------------------------------------------------
(* JavaScript values.                                                      *)

\* A field that is not there (undefined), and null.
Absent == "<absent>"
Null == [t |-> "null", v |-> 0]

\* Numbers are kept in thousandths, one digit below what toFixed(2) keeps.
Scale == 10 * 100
Num(n) == [t |-> "num", v |-> n]
NaN == [t |-> "nan", v |-> 0]
Infinity == [t |-> "inf", v |-> 0]
\* A string where a number is expected: only its type is ever read.
StringValue == [t |-> "str", v |-> 0]
\* A field of a document that is not there, where a number is expected.
Undefined == [t |-> "undef", v |-> 0]

\* a || b on strings: "" and undefined are falsy.
Truthy(s) == s # Absent /\ s # ""
Or(a, b) == IF Truthy(a) THEN a ELSE b

\* The same on strings kept as their characters (the subject names).
AbsentText == <<"<absent>">>
TruthyText(s) == s # AbsentText /\ s # << >>
OrText(a, b) == IF TruthyText(a) THEN a ELSE b

\* typeof v === "string" for a field that holds a string when present.
IsString(s) == s # Absent

\* typeof v === "number": NaN and Infinity are numbers too.
IsNumber(v) == v.t \in {"num", "nan", "inf"}

Digits == <<"0", "1", "2", "3", "4", "5", "6", "7", "8", "9">>
IsDigit(c) == \E i \in 1..Len(Digits) : Digits[i] = c
DigitVal(c) == (CHOOSE i \in 1..Len(Digits) : Digits[i] = c) - 1

RECURSIVE DecimalValue(_)
DecimalValue(s) ==
    IF s = << >> THEN 0
    ELSE 10 * DecimalValue(SubSeq(s, 1, Len(s) - 1)) + DigitVal(s[Len(s)])

AllDigits(s) == \A i \in 1..Len(s) : IsDigit(s[i])

\* The unsigned decimal literal s (digits, at most one ".", at most three
\* digits after it), in thousandths.
UnsignedValue(s) ==
    LET dots == {i \in 1..Len(s) : s[i] = "."}
        dot == IF dots = {} THEN Len(s) + 1 ELSE CHOOSE i \in dots : TRUE
        int == SubSeq(s, 1, dot - 1)
        frac == SubSeq(s, dot + 1, Len(s))
        frac3 == SubSeq(frac \o <<"0", "0", "0">>, 1, 3)
    IN  IF Cardinality(dots) > 1 \/ ~AllDigits(int) \/ ~AllDigits(frac)
           \/ (int = << >> /\ frac = << >>)
        THEN NaN
        ELSE Num(Scale * DecimalValue(int) + DecimalValue(frac3))

\* Number(s) for a string s given as its characters.
Number(s) ==
    IF s = << >> THEN Num(0)
    ELSE IF s = <<"I", "n", "f", "i", "n", "i", "t", "y">> THEN Infinity
    ELSE IF s[1] = "-"
         THEN LET u == UnsignedValue(Tail(s))
              IN  IF u.t = "num" THEN Num(0 - u.v) ELSE NaN
    ELSE IF s[1] = "+" THEN UnsignedValue(Tail(s))
    ELSE UnsignedValue(s)

\* Plain objects as functions; {} is the empty function.
EmptyObject == << >>
Has(o, k) == k \in DOMAIN o
Put(o, k, x) == [y \in DOMAIN o \cup {k} |-> IF y = k THEN x ELSE o[y]]

-----------------------------------------------------------------------------
(* The document store.                                                     *)

TeacherIds == {"tA", "tB"}

daysToFetch == <<"mon", "tue", "wed", "thu", "fri">>

\* The fields of a period document the component reads; all absent here.
NoFields ==
    [teacherId |-> Absent, teacher |-> Absent, facultyId |-> Absent,
     tname |-> Absent, sname |-> AbsentText, subject |-> AbsentText, name |-> AbsentText,
     scode |-> Absent, code |-> Absent, room |-> Absent, venue |-> Absent]

PeriodDoc(r, day, id, data) == [routine |-> r, day |-> day, id |-> id, data |-> data]

\* getDocs(collection(db, "routines", r, day)): the documents of one day.
ListDay(col, r, day) ==
    SelectSeq(col, LAMBDA pd : pd.routine = r /\ pd.day = day)

\* teachers/{id}: a document with its fields, or no document.
NoDoc == [exists |-> FALSE, loadLimit |-> Undefined, name |-> Absent, dept |-> Absent]
TeacherDoc(limit, name, dept) ==
    [exists |-> TRUE, loadLimit |-> limit, name |-> name, dept |-> dept]

\* Store contents the session is run against: it starts on OneRoutine, and
\* another client may empty the routines collection or restore it.
EmptyRoutines == [routines |-> << >>, periods |-> << >>]
OneRoutine ==
    [routines |-> <<[id |-> "r1", name |-> "CSE-1"]>>,
     periods |-> <<
        PeriodDoc("r1", "mon", <<"1">>, [NoFields EXCEPT !.teacherId = "tA", !.sname = <<"M", "a", "t", "h", "s">>]),
        PeriodDoc("r1", "mon", <<"2">>, [NoFields EXCEPT !.teacherId = "tB", !.sname = <<"C", "A", "D", " ", "L", "a", "b">>]),
        PeriodDoc("r1", "thu", <<"3">>, [NoFields EXCEPT !.teacher = "tA", !.subject = <<"A", "l", "g", "e", "b", "r", "a">>]) >>]
RoutineStores == {EmptyRoutines, OneRoutine}

\* teachers/tA holds a limit of 12.5 and there is no teachers/tB.
OneLimit == [t \in TeacherIds |-> IF t = "tA" THEN TeacherDoc(Num(12500), "Ann", "CSE") ELSE NoDoc]

\* The stores the limit dialog is run against: OneLimit, and one with a
\* negative limit for tA and a text in the place of tB's.
TeacherStores ==
    { OneLimit,
      [t \in TeacherIds |-> IF t = "tA" THEN TeacherDoc(Num(0 - 5000), "Ann", "CSE")
                                         ELSE TeacherDoc(StringValue, "Bob", "EEE")] }

SubjectStore ==
    << [id |-> "s1", teachers |-> <<[id |-> "tA", name |-> Absent], [id |-> "tB", name |-> "Bob"]>>],
       [id |-> "s2", teachers |-> <<[id |-> "tA", name |-> "Ann"]>>] >>

-----------------------------------------------------------------------------
(* Construction: the state after the first render and its mount effects.   *)

NoTeacher == [value |-> Absent, label |-> Absent]

\* A location of the router without state, and no location.
Location(pathname, search) == [pathname |-> pathname, search |-> search]
NoLocation == Location(Absent, Absent)

\* The state after the first render of the application: the auth state is
\* not known yet and the router is at the root.
LoginInit ==
    /\ authUser = FALSE
    /\ authLoading = TRUE
    /\ location = [pathname |-> "/", search |-> "", from |-> NoLocation]
    /\ email = << >>
    /\ password = << >>
    /\ loginLoading = FALSE
    /\ loginError = Absent
    /\ signIn = [pc |-> "idle", from |-> Absent, out |-> "none"]

SessionInit ==
    /\ teachers = << >>
    /\ loadingTeachers = TRUE
    /\ selectedTeacher = NoTeacher
    /\ loadingSchedule = FALSE
    /\ teacherSchedule = EmptyObject
    /\ publishedBy = 0
    /\ error = Absent
    /\ limitModalOpen = FALSE
    /\ limitInputValue = << >>
    /\ loadLimit = Null
    /\ limitLoading = FALSE
    /\ limitSaving = FALSE
    /\ catalog = [pc |-> "subjects", docs |-> << >>, i |-> 0, teacherMap |-> << >>,
                  out |-> "pending"]
    /\ builds = << >>
    /\ fetches = << >>
    /\ saves = << >>
    /\ nSelections = 0
    /\ nEdits = 0
    /\ LoginInit

Init ==
    /\ subjectsCol = SubjectStore
    /\ routinesCol = OneRoutine.routines
    /\ periodsCol = OneRoutine.periods
    /\ teachersCol = OneLimit
    /\ SessionInit

-----------------------------------------------------------------------------
(* loadTeachers: the catalog scan of the mount effect.                     *)

\* A map that keeps the first name written for an id.
MapSetOnce(m, id, name) ==
    IF \E k \in 1..Len(m) : m[k].id = id THEN m
    ELSE Append(m, [id |-> id, name |-> name])

\* teacherMap[id] = name on an object whose keys keep insertion order.
MapSet(m, id, name) ==
    IF \E k \in 1..Len(m) : m[k].id = id
    THEN [k \in 1..Len(m) |-> IF m[k].id = id THEN [id |-> id, name |-> name] ELSE m[k]]
    ELSE Append(m, [id |-> id, name |-> name])

RECURSIVE MergeTeachers(_, _)
MergeTeachers(m, docs) ==
    IF docs = << >> THEN m
    ELSE MergeTeachers(MapSet(m, Head(docs).id, Or(Head(docs).name, Head(docs).id)), Tail(docs))

\* A catch that exposes what was gathered before the failure.
CatalogFailedExposingPartial ==
    /\ error' = "Failed loading teachers."
    /\ loadingTeachers' = FALSE
    /\ catalog' = [catalog EXCEPT !.pc = "done", !.out = "threw"]
    /\ teachers' = catalog.teacherMap

\* catch and finally of loadTeachers.
CatalogFailed ==
    /\ error' = "Failed loading teachers."
    /\ loadingTeachers' = FALSE
    /\ catalog' = [catalog EXCEPT !.pc = "done", !.out = "threw"]
    /\ UNCHANGED teachers

CatalogFinished(m) ==
    /\ teachers' = m
    /\ loadingTeachers' = FALSE
    /\ catalog' = [catalog EXCEPT !.pc = "done", !.teacherMap = m, !.out = "loaded"]
    /\ UNCHANGED error

\* getDocs(collection(db, "subjects")) settles.
CatalogSubjectsRead ==
    /\ catalog.pc = "subjects"
    /\ \E ok \in BOOLEAN :
         IF ~ok THEN CatalogFailed
         ELSE IF subjectsCol = << >> THEN CatalogFinished(<< >>)
         ELSE /\ catalog' = [catalog EXCEPT !.pc = "teachers",
                                !.docs = [k \in 1..Len(subjectsCol) |-> subjectsCol[k].id],
                                !.i = 1]
              /\ UNCHANGED <<teachers, loadingTeachers, error>>
    /\ UNCHANGED <<loginVars, storeVars, selectedTeacher, loadingSchedule, teacherSchedule, publishedBy,
                   limitVars, builds, fetches, saves, nSelections, nEdits>>

\* The teachers sub-collection of subject id, as the store holds it now.
ListSubjectTeachers(id) ==
    LET hit == SelectSeq(subjectsCol, LAMBDA sd : sd.id = id)
    IN  IF hit = << >> THEN << >> ELSE hit[1].teachers

\* getDocs(collection(db, "subjects", subDoc.id, "teachers")) settles.
CatalogTeachersRead ==
    /\ catalog.pc = "teachers"
    /\ \E ok \in BOOLEAN :
         IF ~ok THEN CatalogFailed
         ELSE LET m == MergeTeachers(catalog.teacherMap,
                                     ListSubjectTeachers(catalog.docs[catalog.i]))
              IN  IF catalog.i = Len(catalog.docs) THEN CatalogFinished(m)
                  ELSE /\ catalog' = [catalog EXCEPT !.i = @ + 1, !.teacherMap = m]
                       /\ UNCHANGED <<teachers, loadingTeachers, error>>
    /\ UNCHANGED <<loginVars, storeVars, selectedTeacher, loadingSchedule, teacherSchedule, publishedBy,
                   limitVars, builds, fetches, saves, nSelections, nEdits>>

\* teacherOptions: what the select offers.
teacherOptions == {[value |-> teachers[k].id, label |-> teachers[k].name] : k \in 1..Len(teachers)}

-----------------------------------------------------------------------------
(* loadTeacherAssignments: the schedule scan of one selection.             *)

\* Mutation: the aliases are tried in the opposite order.
ResolveTeacherRefReversed(data) == Or(Or(data.facultyId, data.teacher), data.teacherId)

\* data.teacherId || data.teacher || data.facultyId || null
ResolveTeacherRef(data) == Or(Or(data.teacherId, data.teacher), data.facultyId)

\* Mutation: the name field is not looked at.
MatchesTeacherByReferenceOnly(data, teacherId) ==
    LET tId == ResolveTeacherRef(data)
    IN  Truthy(tId) /\ tId = teacherId

\* The test of the forEach body: a reference is there, and it or tname is the id.
MatchesTeacher(data, teacherId) ==
    LET tId == ResolveTeacherRef(data)
    IN  /\ Truthy(tId)
        /\ (tId = teacherId \/ (IsString(data.tname) /\ data.tname = teacherId))

ScheduleEntry(r, data) ==
    [routineId |-> r.id,
     routineName |-> r.name,
     subject |-> OrText(OrText(OrText(data.sname, data.subject), data.name), << >>),
     subjectCode |-> Or(Or(data.scode, data.code), ""),
     room |-> Or(Or(data.room, data.venue), "")]

\* scheduleMap[dayKey][p].push(entry), creating the containers on first use.
PushEntry(scheduleMap, dayKey, p, entry) ==
    LET m1 == IF Has(scheduleMap, dayKey) THEN scheduleMap
              ELSE Put(scheduleMap, dayKey, EmptyObject)
        d1 == IF Has(m1[dayKey], p) THEN m1[dayKey] ELSE Put(m1[dayKey], p, << >>)
    IN  Put(m1, dayKey, Put(d1, p, Append(d1[p], entry)))

\* daySnapshot.forEach(...) over the documents of one day.
RECURSIVE ScanDay(_, _, _, _, _)
ScanDay(scheduleMap, r, dayKey, docs, teacherId) ==
    IF docs = << >> THEN scheduleMap
    ELSE LET periodDoc == Head(docs)
             p == Number(periodDoc.id)
             next == IF MatchesTeacher(periodDoc.data, teacherId)
                     THEN PushEntry(scheduleMap, dayKey, p, ScheduleEntry(r, periodDoc.data))
                     ELSE scheduleMap
         IN  ScanDay(next, r, dayKey, Tail(docs), teacherId)

\* routinesSnapshot.docs.map(d => ({ id: d.id, name: d.data().name || d.id }))
RoutineDocs(col) == [k \in 1..Len(col) |-> [id |-> col[k].id, name |-> Or(col[k].name, col[k].id)]]

NewBuild(teacherId) ==
    [teacherId |-> teacherId, cancelled |-> FALSE, pc |-> "routines",
     routineDocs |-> << >>, ri |-> 0, di |-> 0, scheduleMap |-> EmptyObject,
     out |-> "pending"]

\* getCellEntries: the entries of one cell of an index, [] when there is none.
getCellEntries(index, dayKey, periodNum) ==
    IF Has(index, dayKey) /\ Has(index[dayKey], periodNum) THEN index[dayKey][periodNum] ELSE << >>

\* The message of the catch block.
ScheduleError == "Failed to load schedule."

\* The guards on the three writes that end a scan.
MayPublish(task) == ~task.cancelled
MayReportError(task) == ~task.cancelled
MayClearLoading(task) == ~task.cancelled

\* The finally block, after the scan returned or threw.
BuildFinally(b) ==
    loadingSchedule' = IF MayClearLoading(builds[b]) THEN FALSE ELSE loadingSchedule

\* Mutation: the catch block publishes what the scan had gathered.
BuildThrewKeepingPartial(b) ==
    /\ builds' = [builds EXCEPT ![b] = [@ EXCEPT !.pc = "done", !.out = "threw"]]
    /\ error' = IF MayReportError(builds[b]) THEN ScheduleError ELSE error
    /\ BuildFinally(b)
    /\ teacherSchedule' = builds[b].scheduleMap
    /\ publishedBy' = b

\* A read threw: the catch block, then finally.
BuildThrew(b) ==
    /\ builds' = [builds EXCEPT ![b] = [@ EXCEPT !.pc = "done", !.out = "threw"]]
    /\ error' = IF MayReportError(builds[b]) THEN ScheduleError ELSE error
    /\ BuildFinally(b)
    /\ UNCHANGED <<teacherSchedule, publishedBy>>

\* if (cancelled) return, at a routine or day boundary.
BuildBailed(b, task) ==
    /\ builds' = [builds EXCEPT ![b] = [task EXCEPT !.pc = "done", !.out = "bailed"]]
    /\ BuildFinally(b)
    /\ UNCHANGED <<teacherSchedule, publishedBy, error>>

\* The loops ran out: if (!cancelled) setTeacherSchedule(scheduleMap).
BuildCompleted(b, task) ==
    /\ builds' = [builds EXCEPT ![b] =
                    [task EXCEPT !.pc = "done",
                                 !.out = IF MayPublish(task) THEN "published" ELSE "dropped"]]
    /\ teacherSchedule' = IF MayPublish(task) THEN task.scheduleMap ELSE teacherSchedule
    /\ publishedBy' = IF MayPublish(task) THEN b ELSE publishedBy
    /\ BuildFinally(b)
    /\ UNCHANGED error

\* Mutation: the early return leaves the exposed index as it is.
BuildFoundNoRoutinesSilently(b) ==
    /\ builds' = [builds EXCEPT ![b] = [@ EXCEPT !.pc = "done", !.out = "empty"]]
    /\ BuildFinally(b)
    /\ UNCHANGED <<teacherSchedule, publishedBy, error>>

\* routinesSnapshot.empty: setTeacherSchedule({}); return.
BuildFoundNoRoutines(b) ==
    /\ builds' = [builds EXCEPT ![b] = [@ EXCEPT !.pc = "done", !.out = "empty"]]
    /\ teacherSchedule' = EmptyObject
    /\ publishedBy' = b
    /\ BuildFinally(b)
    /\ UNCHANGED error

\* Issue the read of day di of routine ri, unless cancelled at the boundary.
BuildEntersDay(b, task, ri, di) ==
    IF task.cancelled THEN BuildBailed(b, task)
    ELSE /\ builds' = [builds EXCEPT ![b] = [task EXCEPT !.pc = "day", !.ri = ri, !.di = di]]
         /\ UNCHANGED <<teacherSchedule, publishedBy, error, loadingSchedule>>

\* getDocs(collection(db, "routines")) settles.
BuildRoutinesRead(b) ==
    /\ b \in 1..Len(builds)
    /\ builds[b].pc = "routines"
    /\ \E ok \in BOOLEAN :
         IF ~ok THEN BuildThrew(b)
         ELSE IF routinesCol = << >> THEN BuildFoundNoRoutines(b)
         ELSE BuildEntersDay(b, [builds[b] EXCEPT !.routineDocs = RoutineDocs(routinesCol)], 1, 1)
    /\ UNCHANGED <<loginVars, storeVars, catalogVars, selectedTeacher, limitVars, fetches, saves,
                   nSelections, nEdits>>

\* getDocs(collection(db, "routines", r.id, dayKey)) settles.
BuildDayRead(b) ==
    /\ b \in 1..Len(builds)
    /\ builds[b].pc = "day"
    /\ \E ok \in BOOLEAN :
         IF ~ok THEN BuildThrew(b)
         ELSE LET task == builds[b]
                  r == task.routineDocs[task.ri]
                  dayKey == daysToFetch[task.di]
                  scanned == [task EXCEPT !.scheduleMap =
                                ScanDay(@, r, dayKey, ListDay(periodsCol, r.id, dayKey), task.teacherId)]
              IN  IF task.di < Len(daysToFetch) THEN BuildEntersDay(b, scanned, task.ri, task.di + 1)
                  ELSE IF task.ri < Len(task.routineDocs) THEN BuildEntersDay(b, scanned, task.ri + 1, 1)
                  ELSE BuildCompleted(b, scanned)
    /\ UNCHANGED <<loginVars, storeVars, catalogVars, selectedTeacher, limitVars, fetches, saves,
                   nSelections, nEdits>>

-----------------------------------------------------------------------------
(* fetchLimit: the limit read of one selection.                            *)

RECURSIVE DigitsOf(_)
DigitsOf(n) == IF n < 10 THEN <<Digits[n + 1]>> ELSE DigitsOf(n \div 10) \o <<Digits[(n % 10) + 1]>>

\* String(x) for a number x.
NumberToString(x) ==
    IF x.t = "nan" THEN <<"N", "a", "N">>
    ELSE IF x.t = "inf" THEN <<"I", "n", "f", "i", "n", "i", "t", "y">>
    ELSE LET a == IF x.v < 0 THEN 0 - x.v ELSE x.v
             whole == DigitsOf(a \div Scale)
             rest == a % Scale
             frac == IF rest = 0 THEN << >>
                     ELSE IF rest % 100 = 0 THEN <<".">> \o DigitsOf(rest \div 100)
                     ELSE IF rest % 10 = 0
                          THEN <<".", Digits[(rest \div 100) + 1], Digits[((rest \div 10) % 10) + 1]>>
                     ELSE <<".", Digits[(rest \div 100) + 1], Digits[((rest \div 10) % 10) + 1],
                            Digits[(rest % 10) + 1]>>
         IN  (IF x.v < 0 THEN <<"-">> ELSE << >>) \o whole \o frac

NewFetch(teacherId) == [teacherId |-> teacherId, cancelled |-> FALSE, pc |-> "read", out |-> "pending"]

\* The guards on the writes that follow the read.
MayApplyLimit(task) == ~task.cancelled
MayClearLimitLoading(task) == ~task.cancelled

\* What the read makes of the document: its loadLimit if a number, else null.
LimitOfDoc(snap) ==
    IF snap.exists /\ IsNumber(snap.loadLimit) THEN snap.loadLimit ELSE Null

\* getDoc(doc(db, "teachers", selectedTeacher.value)) settles.
FetchLimitRead(f) ==
    /\ f \in 1..Len(fetches)
    /\ fetches[f].pc = "read"
    /\ \E ok \in BOOLEAN :
         LET task == fetches[f]
             limit == LimitOfDoc(teachersCol[task.teacherId])
         IN  /\ fetches' = [fetches EXCEPT ![f] =
                              [@ EXCEPT !.pc = "done", !.out = IF ok THEN "read" ELSE "threw"]]
             /\ IF ok /\ MayApplyLimit(task)
                THEN /\ loadLimit' = limit
                     /\ limitInputValue' = IF limit = Null THEN << >> ELSE NumberToString(limit)
                ELSE UNCHANGED <<loadLimit, limitInputValue>>
             /\ limitLoading' = IF MayClearLimitLoading(task) THEN FALSE ELSE limitLoading
    /\ UNCHANGED <<loginVars, storeVars, catalogVars, selectedTeacher, loadingSchedule, teacherSchedule, publishedBy,
                   error, limitModalOpen, limitSaving, builds, saves, nSelections, nEdits>>

-----------------------------------------------------------------------------
(* The selection: onChange of the select, then the two effects on          *)
(* [selectedTeacher], cleanups first.                                      *)

\* The cleanup of the previous run of an effect: cancelled = true.
CancelLatest(tasks) ==
    IF tasks = << >> \/ selectedTeacher = NoTeacher THEN tasks
    ELSE [tasks EXCEPT ![Len(tasks)] = [@ EXCEPT !.cancelled = TRUE]]

\* The schedule effect with no teacher selected.
ScheduleEffectIdle ==
    /\ teacherSchedule' = EmptyObject
    /\ publishedBy' = 0
    /\ builds' = CancelLatest(builds)
    /\ UNCHANGED <<loadingSchedule, error>>

\* The schedule effect with a teacher: the scan starts and runs to its first await.
ScheduleEffectStart(opt) ==
    /\ builds' = Append(CancelLatest(builds), NewBuild(opt.value))
    /\ loadingSchedule' = TRUE
    /\ error' = Absent
    /\ UNCHANGED <<teacherSchedule, publishedBy>>

\* The limit effect with no teacher selected.
LimitEffectIdle ==
    /\ loadLimit' = Null
    /\ limitInputValue' = << >>
    /\ fetches' = CancelLatest(fetches)
    /\ UNCHANGED limitLoading

\* The limit effect with a teacher: the read starts and runs to its await.
LimitEffectStart(opt) ==
    /\ fetches' = Append(CancelLatest(fetches), NewFetch(opt.value))
    /\ limitLoading' = TRUE
    /\ UNCHANGED <<loadLimit, limitInputValue>>

SelectTeacher(opt) ==
    /\ nSelections < MaxSelections
    /\ opt # selectedTeacher
    /\ selectedTeacher' = opt
    /\ nSelections' = nSelections + 1
    /\ IF opt = NoTeacher THEN ScheduleEffectIdle /\ LimitEffectIdle
       ELSE ScheduleEffectStart(opt) /\ LimitEffectStart(opt)
    /\ UNCHANGED <<loginVars, storeVars, catalogVars, limitModalOpen, limitSaving, saves, nEdits>>

-----------------------------------------------------------------------------
(* The limit dialog, saveLimit and clearLimit.                             *)

\* What the user may type into the limit input.
LimitInputs ==
    { << >>, <<"0">>, <<"-", "5">>, <<"a", "b", "c">>, <<"1", "2", ".", "5">> }

\* openLimitDialog, from the "Set Load Limit" button (disabled while limitLoading).
OpenLimitDialog ==
    /\ selectedTeacher # NoTeacher
    /\ ~limitLoading
    /\ ~limitModalOpen
    /\ limitInputValue' = IF loadLimit # Null THEN NumberToString(loadLimit) ELSE << >>
    /\ limitModalOpen' = TRUE
    /\ UNCHANGED <<loginVars, storeVars, catalogVars, selectedTeacher, loadingSchedule, teacherSchedule, publishedBy,
                   error, loadLimit, limitLoading, limitSaving, builds, fetches, saves,
                   nSelections, nEdits>>

\* onChange of the limit input of the dialog.
TypeLimit(text) ==
    /\ selectedTeacher # NoTeacher
    /\ limitModalOpen
    /\ text # limitInputValue
    /\ limitInputValue' = text
    /\ UNCHANGED <<loginVars, storeVars, catalogVars, selectedTeacher, loadingSchedule, teacherSchedule, publishedBy,
                   error, limitModalOpen, loadLimit, limitLoading, limitSaving, builds,
                   fetches, saves, nSelections, nEdits>>

\* onMouseDown of the overlay: the dialog closes without saving.
CloseLimitDialog ==
    /\ selectedTeacher # NoTeacher
    /\ limitModalOpen
    /\ limitModalOpen' = FALSE
    /\ UNCHANGED <<loginVars, storeVars, catalogVars, selectedTeacher, loadingSchedule, teacherSchedule, publishedBy,
                   error, limitInputValue, loadLimit, limitLoading, limitSaving, builds,
                   fetches, saves, nSelections, nEdits>>

\* saveLimit clearing only on an empty or non-numeric input.
LimitToSaveKeepingSign(text) ==
    LET parsed == Number(text)
    IN  IF text = << >> \/ parsed.t = "nan" THEN Null ELSE parsed

\* The value saveLimit writes for an input: null for "", NaN and <= 0.
LimitToSave(text) ==
    LET parsed == Number(text)
    IN  IF text = << >> \/ parsed.t = "nan" \/ (parsed.t = "num" /\ parsed.v <= 0)
        THEN Null ELSE parsed

\* clearLimit writing no name.
NewSaveUnnamedClear(kind, value) ==
    [kind |-> kind, teacherId |-> selectedTeacher.value,
     label |-> IF kind = "clear" THEN Absent ELSE selectedTeacher.label,
     input |-> IF kind = "save" THEN limitInputValue ELSE << >>,
     before |-> loadLimit,
     value |-> value, pc |-> "write", out |-> "pending"]

\* The call in flight: what its closure holds (the teacher and, for saveLimit,
\* the input it parsed) and the value it writes; before is the session limit
\* when the call was made.
NewSave(kind, value) ==
    [kind |-> kind, teacherId |-> selectedTeacher.value, label |-> selectedTeacher.label,
     input |-> IF kind = "save" THEN limitInputValue ELSE << >>,
     before |-> loadLimit,
     value |-> value, pc |-> "write", out |-> "pending"]

\* Mutation: the Save button stays enabled while a write is in flight.
SaveLimitStartWhileSaving ==
    /\ selectedTeacher # NoTeacher
    /\ limitModalOpen
    /\ limitSaving' = TRUE
    /\ saves' = Append(saves, NewSave("save", LimitToSave(limitInputValue)))
    /\ UNCHANGED <<loginVars, storeVars, catalogVars, selectedTeacher, loadingSchedule, teacherSchedule, publishedBy,
                   error, limitModalOpen, limitInputValue, loadLimit, limitLoading, builds,
                   fetches, nSelections, nEdits>>

\* saveLimit up to its await, from the Save button of the dialog.
SaveLimitStart ==
    /\ selectedTeacher # NoTeacher
    /\ limitModalOpen
    /\ ~limitSaving
    /\ limitSaving' = TRUE
    /\ saves' = Append(saves, NewSave("save", LimitToSave(limitInputValue)))
    /\ UNCHANGED <<loginVars, storeVars, catalogVars, selectedTeacher, loadingSchedule, teacherSchedule, publishedBy,
                   error, limitModalOpen, limitInputValue, loadLimit, limitLoading, builds,
                   fetches, nSelections, nEdits>>

\* clearLimit up to its await, from the Clear button beside the limit
\* (shown while loadLimit !== null) or the Clear link of the dialog.
ClearLimitStart ==
    /\ selectedTeacher # NoTeacher
    /\ loadLimit # Null \/ limitModalOpen
    /\ ~limitSaving
    /\ limitSaving' = TRUE
    /\ saves' = Append(saves, NewSave("clear", Null))
    /\ UNCHANGED <<loginVars, storeVars, catalogVars, selectedTeacher, loadingSchedule, teacherSchedule, publishedBy,
                   error, limitModalOpen, limitInputValue, loadLimit, limitLoading, builds,
                   fetches, nSelections, nEdits>>

\* setDoc without merge: the document is replaced.
MergeLimitReplacing(snap, value, label) ==
    [exists |-> TRUE, loadLimit |-> value, name |-> label, dept |-> Absent]

\* setDoc(ref, { loadLimit, name }, { merge: true }) on the document as stored.
MergeLimit(snap, value, label) ==
    [snap EXCEPT !.exists = TRUE, !.loadLimit = value, !.name = label]

\* The limit applied before the write is known to have succeeded.
LimitAfterWriteOptimistic(ok, task) == task.value

\* setLoadLimit after the await: reached only when the write did not throw.
LimitAfterWrite(ok, task) == IF ok THEN task.value ELSE loadLimit

\* setDoc(...) settles: the rest of saveLimit or clearLimit, then finally.
LimitWriteSettled(w) ==
    /\ w \in 1..Len(saves)
    /\ saves[w].pc = "write"
    /\ \E ok \in BOOLEAN :
         LET task == saves[w]
         IN  /\ saves' = [saves EXCEPT ![w] =
                            [@ EXCEPT !.pc = "done", !.out = IF ok THEN "written" ELSE "threw"]]
             /\ teachersCol' = IF ok
                               THEN [teachersCol EXCEPT ![task.teacherId] =
                                       MergeLimit(@, task.value, task.label)]
                               ELSE teachersCol
             /\ loadLimit' = LimitAfterWrite(ok, task)
             /\ limitInputValue' = IF ok /\ task.kind = "clear" THEN << >> ELSE limitInputValue
    /\ limitSaving' = FALSE
    /\ limitModalOpen' = FALSE
    /\ UNCHANGED <<loginVars, subjectsCol, routinesCol, periodsCol, catalogVars, selectedTeacher,
                   loadingSchedule, teacherSchedule, publishedBy, error, limitLoading, builds, fetches,
                   nSelections, nEdits>>

-----------------------------------------------------------------------------
(* Other clients of the store.                                             *)

\* The routines collection is rewritten by another client.
RoutinesEdited ==
    /\ nEdits < MaxEdits
    /\ nEdits' = nEdits + 1
    /\ \E rs \in RoutineStores :
         /\ rs.routines # routinesCol
         /\ routinesCol' = rs.routines
         /\ periodsCol' = rs.periods
    /\ UNCHANGED <<loginVars, subjectsCol, teachersCol, catalogVars, selectedTeacher, loadingSchedule,
                   teacherSchedule, publishedBy, error, limitVars, builds, fetches, saves, nSelections>>

-----------------------------------------------------------------------------
(* The derived values of the render.                                       *)

UpperCase == <<"A", "B", "C", "D", "E", "F", "G", "H", "I", "J", "K", "L", "M",
               "N", "O", "P", "Q", "R", "S", "T", "U", "V", "W", "X", "Y", "Z">>
LowerCase == <<"a", "b", "c", "d", "e", "f", "g", "h", "i", "j", "k", "l", "m",
               "n", "o", "p", "q", "r", "s", "t", "u", "v", "w", "x", "y", "z">>

\* The /i flag: letters compare by their lower case.
ToLower(c) ==
    IF \E k \in 1..Len(UpperCase) : UpperCase[k] = c
    THEN LowerCase[CHOOSE k \in 1..Len(UpperCase) : UpperCase[k] = c]
    ELSE c

\* \w of a regular expression.
IsWordChar(c) ==
    \/ \E k \in 1..Len(LowerCase) : LowerCase[k] = ToLower(c)
    \/ IsDigit(c)
    \/ c = "_"

\* \b before position pos of s (pos = Len(s) + 1: at the end).
WordBoundary(s, pos) ==
    (pos > 1 /\ IsWordChar(s[pos - 1])) # (pos <= Len(s) /\ IsWordChar(s[pos]))

\* /\bword\b/i matches s at position i.
WordAt(s, i, word) ==
    /\ i + Len(word) - 1 <= Len(s)
    /\ \A k \in 1..Len(word) : ToLower(s[i + k - 1]) = word[k]
    /\ WordBoundary(s, i)
    /\ WordBoundary(s, i + Len(word))

\* The test the comment above it describes: "lab" anywhere in the name.
IsLabSubstring(subjectName) ==
    \E i \in 1..Len(subjectName) :
        /\ i + 2 <= Len(subjectName)
        /\ <<ToLower(subjectName[i]), ToLower(subjectName[i + 1]), ToLower(subjectName[i + 2])>>
              = <<"l", "a", "b">>

\* /\blab\b|\blaboratory\b/i.test(subjectName)
IsLab(subjectName) ==
    \E i \in 1..Len(subjectName) :
        \/ WordAt(subjectName, i, <<"l", "a", "b">>)
        \/ WordAt(subjectName, i, <<"l", "a", "b", "o", "r", "a", "t", "o", "r", "y">>)

RECURSIVE SumOver(_, _)
SumOver(o, keys) ==
    IF keys = {} THEN 0
    ELSE LET k == CHOOSE k \in keys : TRUE IN o[k] + SumOver(o, keys \ {k})

\* The entries of the index that are (lab = TRUE) or are not (lab = FALSE) a lab.
CountEntries(index, lab) ==
    LET inCell(entries) == Cardinality({k \in 1..Len(entries) : IsLab(entries[k].subject) = lab})
        inDay(dayObj) == SumOver([p \in DOMAIN dayObj |-> inCell(dayObj[p])], DOMAIN dayObj)
    IN  SumOver([d \in DOMAIN index |-> inDay(index[d])], DOMAIN index)

\* The total rounded to a whole number.
ToFixedWhole(x) == ((x + Scale \div 2) \div Scale) * Scale

\* Number(x.toFixed(2)) for x >= 0, in thousandths: half-up to two decimals.
ToFixed2(x) == ((x + 5) \div 10) * 10

calculateWeeklyLoad(index) ==
    LET theoryCount == CountEntries(index, FALSE)
        labCount == CountEntries(index, TRUE)
    IN  [theoryCount |-> theoryCount, labCount |-> labCount,
         totalLoad |-> ToFixed2(theoryCount * Scale + labCount * (Scale \div 2))]

\* The comparison that counts an equal load as exceeding.
GreaterOrEqual(n, x) ==
    /\ x.t \in {"num"}
    /\ n >= x.v

\* n > m on numbers, with NaN never greater and never exceeded.
GreaterThan(n, x) ==
    /\ x.t \in {"num"}
    /\ n > x.v

\* exceedsLimit of the render.
exceedsLimit ==
    loadLimit # Null /\ GreaterThan(calculateWeeklyLoad(teacherSchedule).totalLoad, loadLimit)

-----------------------------------------------------------------------------
(* RequireAuth and Login. They share no state with FacultyRoutine.         *)

LoginPath == "/login"

\* The locations behind RequireAuth.
ProtectedLocations == { Location("/", ""), Location("/faculty", "?week=2") }

\* What the user may type into the two inputs of the form.
Emails == { << >>, <<" ">>, <<"a", "@", "b">> }
Passwords == { << >>, <<"p", "w">> }

\* s.trim() on the characters of s.
RECURSIVE TrimStart(_)
TrimStart(s) == IF s # << >> /\ Head(s) = " " THEN TrimStart(Tail(s)) ELSE s
RECURSIVE TrimEnd(_)
TrimEnd(s) ==
    IF s # << >> /\ s[Len(s)] = " " THEN TrimEnd(SubSeq(s, 1, Len(s) - 1)) ELSE s
Trim(s) == TrimEnd(TrimStart(s))

\* The first notification of the auth state: a user is signed in or nobody is.
AuthStateKnown ==
    /\ authLoading
    /\ authLoading' = FALSE
    /\ \E user \in BOOLEAN : authUser' = user
    /\ UNCHANGED <<routineVars, location, email, password, loginLoading, loginError, signIn>>

\* Login is mounted anew: its four states start from their initial values.
LoginMounts ==
    /\ email' = << >>
    /\ password' = << >>
    /\ loginLoading' = FALSE
    /\ loginError' = Absent

\* The user follows a link to a protected location or to /login; no call of
\* handleSubmit is pending (the form is all the login page shows).
OpenLocation(target) ==
    /\ signIn.pc # "awaiting"
    /\ target.pathname # location.pathname
    /\ location' = [pathname |-> target.pathname, search |-> target.search, from |-> NoLocation]
    /\ IF target.pathname = LoginPath THEN LoginMounts
       ELSE UNCHANGED <<email, password, loginLoading, loginError>>
    /\ UNCHANGED <<routineVars, authUser, authLoading, signIn>>

\* RequireAuth renders at a protected location with nobody signed in:
\* <Navigate to="/login" state={{ from: location }} replace />.
RequireAuthRedirects ==
    /\ location.pathname # LoginPath
    /\ ~authLoading
    /\ ~authUser
    /\ location' = [pathname |-> LoginPath, search |-> "",
                    from |-> Location(location.pathname, location.search)]
    /\ LoginMounts
    /\ UNCHANGED <<routineVars, authUser, authLoading, signIn>>

\* onChange of the two inputs.
TypeEmail(text) ==
    /\ location.pathname = LoginPath
    /\ text # email
    /\ email' = text
    /\ UNCHANGED <<routineVars, authUser, authLoading, location, password, loginLoading,
                   loginError, signIn>>

TypePassword(text) ==
    /\ location.pathname = LoginPath
    /\ text # password
    /\ password' = text
    /\ UNCHANGED <<routineVars, authUser, authLoading, location, email, loginLoading,
                   loginError, signIn>>

\* A target that forgets where the user came from.
RedirectTargetRoot(loc) == "/"

\* const from = location.state?.from?.pathname || "/"
RedirectTarget(loc) == Or(loc.from.pathname, "/")

\* handleSubmit up to its return or its await (the button is disabled while loading).
HandleSubmit ==
    /\ location.pathname = LoginPath
    /\ ~loginLoading
    /\ IF email = << >> \/ password = << >>
       THEN /\ loginError' = "Please enter both email and password."
            /\ loginLoading' = FALSE
            /\ signIn' = [pc |-> "idle", from |-> RedirectTarget(location), out |-> "rejected"]
       ELSE /\ loginError' = Absent
            /\ loginLoading' = TRUE
            /\ signIn' = [pc |-> "awaiting", from |-> RedirectTarget(location), out |-> "pending"]
    /\ UNCHANGED <<routineVars, authUser, authLoading, location, email, password>>

\* What signInWithEmailAndPassword may settle with: success, or an error code.
SignInErrors ==
    { "auth/wrong-password", "auth/user-not-found", "auth/invalid-email",
      "auth/network-request-failed" }

\* The message of the catch block for an error code.
LoginErrorMessage(code) ==
    IF code \in {"auth/wrong-password", "auth/user-not-found"} THEN "Incorrect email or password."
    ELSE IF code = "auth/invalid-email" THEN "Please enter a valid email address."
    ELSE "Unable to sign in. Please try again."

\* The catch block of handleSubmit.
SignInFailed(code) ==
    /\ loginError' = LoginErrorMessage(code)
    /\ loginLoading' = FALSE
    /\ signIn' = [signIn EXCEPT !.pc = "idle", !.out = "failed"]
    /\ UNCHANGED <<authUser, location>>

\* navigate(from, { replace: true }) after the awaited sign-in.
SignInSucceeded ==
    /\ authUser' = TRUE
    /\ location' = [pathname |-> signIn.from, search |-> "", from |-> NoLocation]
    /\ signIn' = [signIn EXCEPT !.pc = "idle", !.out = "signed-in"]
    /\ UNCHANGED <<loginLoading, loginError>>

\* signInWithEmailAndPassword(auth, email.trim(), password) settles; it does
\* not succeed without an email.
SignInSettled ==
    /\ signIn.pc = "awaiting"
    /\ \/ Trim(email) # << >> /\ SignInSucceeded
       \/ \E code \in SignInErrors : SignInFailed(code)
    /\ UNCHANGED <<routineVars, authLoading, email, password>>

\* n.toFixed(2) written out, for a number in thousandths.
FixedString(x) ==
    LET a == IF x.v < 0 THEN 0 - x.v ELSE x.v
        hundredths == ToFixed2(a) \div 10
    IN  (IF x.v < 0 THEN <<"-">> ELSE << >>)
            \o DigitsOf(hundredths \div 100)
            \o <<".", Digits[((hundredths \div 10) % 10) + 1], Digits[(hundredths % 10) + 1]>>

\* fmt: "-" for null, String(n) for an integer, n.toFixed(2) otherwise.
fmt(x) ==
    IF x = Null THEN <<"-">>
    ELSE IF x.t # "num" THEN NumberToString(x)
    ELSE IF x.v % Scale = 0 THEN NumberToString(x)
    ELSE FixedString(x)

\* The overage of the load warning, shown only when exceedsLimit.
overageShown ==
    IF exceedsLimit
    THEN fmt(Num(calculateWeeklyLoad(teacherSchedule).totalLoad - loadLimit.v))
    ELSE AbsentText

-----------------------------------------------------------------------------
(* Specifications.                                                         *)

\* The session with its selections and reads, and the store edited by others.
Next ==
    \/ CatalogSubjectsRead
    \/ CatalogTeachersRead
    \/ \E opt \in teacherOptions \cup {NoTeacher} : SelectTeacher(opt)
    \/ \E b \in 1..Len(builds) : BuildRoutinesRead(b)
    \/ \E b \in 1..Len(builds) : BuildDayRead(b)
    \/ \E f \in 1..Len(fetches) : FetchLimitRead(f)
    \/ RoutinesEdited

Spec == Init /\ [][Next]_vars

\* The session with the limit dialog, on a store without routines. The scans
\* stay in flight: they write none of the variables the limit code reads.
LimitInit ==
    /\ subjectsCol = SubjectStore
    /\ routinesCol = EmptyRoutines.routines
    /\ periodsCol = EmptyRoutines.periods
    /\ teachersCol \in TeacherStores
    /\ SessionInit

LimitNext ==
    \/ CatalogSubjectsRead
    \/ CatalogTeachersRead
    \/ \E opt \in teacherOptions \cup {NoTeacher} : SelectTeacher(opt)
    \/ \E f \in 1..Len(fetches) : FetchLimitRead(f)
    \/ OpenLimitDialog
    \/ \E text \in LimitInputs : TypeLimit(text)
    \/ CloseLimitDialog
    \/ Len(saves) < MaxSaves /\ SaveLimitStart
    \/ Len(saves) < MaxSaves /\ ClearLimitStart
    \/ \E w \in 1..Len(saves) : LimitWriteSettled(w)

LimitSpec == LimitInit /\ [][LimitNext]_vars

\* The limit dialog of one selection, with several writes one after another.
WriteInit ==
    /\ subjectsCol = SubjectStore
    /\ routinesCol = EmptyRoutines.routines
    /\ periodsCol = EmptyRoutines.periods
    /\ teachersCol = OneLimit
    /\ SessionInit

\* The selection is made once.
WriteNext ==
    \/ CatalogSubjectsRead
    \/ CatalogTeachersRead
    \/ \E opt \in teacherOptions : nSelections = 0 /\ SelectTeacher(opt)
    \/ \E f \in 1..Len(fetches) : FetchLimitRead(f)
    \/ OpenLimitDialog
    \/ \E text \in LimitInputs : TypeLimit(text)
    \/ CloseLimitDialog
    \/ Len(saves) < MaxWrites /\ SaveLimitStart
    \/ Len(saves) < MaxWrites /\ ClearLimitStart
    \/ \E w \in 1..Len(saves) : LimitWriteSettled(w)

WriteSpec == WriteInit /\ [][WriteNext]_vars

\* One selection on each store of a bounded family of routine stores.
ScanRoutines == <<[id |-> "r1", name |-> "CSE-1"], [id |-> "r2", name |-> Absent]>>

\* What a period document may hold: a reference by teacherId, an empty
\* teacherId with the teacher alias, a reference to tB with the name field
\* naming tA, and no reference with the name field naming tA.
ScanData ==
    << [NoFields EXCEPT !.teacherId = "tA", !.sname = <<"M", "a", "t", "h", "s">>],
       [NoFields EXCEPT !.teacherId = "", !.teacher = "tA", !.subject = <<"L", "a", "b">>,
                        !.room = "R1"],
       [NoFields EXCEPT !.teacherId = "tB", !.tname = "tA", !.name = <<"A", "I">>],
       [NoFields EXCEPT !.tname = "tA", !.sname = <<"D", "B">>] >>

ScanRoutineIds == <<"r1", "r2">>
ScanDays == <<"mon", "fri">>
ScanPeriodIds == << <<"0", "1">>, <<"1">> >>

\* Every document a store of the family may hold, in listing order.
ScanDocs ==
    [k \in 1..(Len(ScanRoutineIds) * Len(ScanDays) * Len(ScanPeriodIds) * Len(ScanData)) |->
        LET n == k - 1
            data == ScanData[(n % Len(ScanData)) + 1]
            n1 == n \div Len(ScanData)
            id == ScanPeriodIds[(n1 % Len(ScanPeriodIds)) + 1]
            n2 == n1 \div Len(ScanPeriodIds)
            day == ScanDays[(n2 % Len(ScanDays)) + 1]
            r == ScanRoutineIds[(n2 \div Len(ScanDays)) + 1]
        IN  PeriodDoc(r, day, id, data)]

SamePath(a, b) == a.routine = b.routine /\ a.day = b.day /\ a.id = b.id

\* The stores of the family: up to MaxRecords documents on distinct paths.
ScanStores ==
    UNION { { [k \in 1..n |-> ScanDocs[pick[k]]] :
                pick \in { f \in [1..n -> 1..Len(ScanDocs)] :
                             \A i, j \in 1..n :
                                i < j => /\ f[i] < f[j]
                                         /\ ~SamePath(ScanDocs[f[i]], ScanDocs[f[j]]) } } :
            n \in 0..MaxRecords }

ScanInit ==
    /\ subjectsCol = SubjectStore
    /\ routinesCol = ScanRoutines
    /\ periodsCol \in ScanStores
    /\ teachersCol = [t \in TeacherIds |-> NoDoc]
    /\ SessionInit

\* The selection is made once.
ScanNext ==
    \/ CatalogSubjectsRead
    \/ CatalogTeachersRead
    \/ \E opt \in teacherOptions : nSelections = 0 /\ SelectTeacher(opt)
    \/ \E b \in 1..Len(builds) : BuildRoutinesRead(b)
    \/ \E b \in 1..Len(builds) : BuildDayRead(b)
    \/ \E f \in 1..Len(fetches) : FetchLimitRead(f)

ScanSpec == ScanInit /\ [][ScanNext]_vars

\* One selection on each store of a bounded family of loads and limits.
LoadSubjects ==
    << <<"P", "h", "y", "s", "i", "c", "s", " ", "L", "a", "b">>,
       <<"L", "a", "b", "o", "r", "a", "t", "o", "r", "y", " ", "M", "e", "t", "h", "o", "d", "s">>,
       <<"L", "A", "B">>,
       <<"C", "o", "l", "l", "a", "b", "o", "r", "a", "t", "i", "o", "n", " ",
         "S", "t", "u", "d", "i", "e", "s">>,
       << >> >>

\* The k-th record of teacher tA: two routines share a cell on each day.
LoadRecord(k, subjectName) ==
    PeriodDoc(ScanRoutineIds[(k % Len(ScanRoutineIds)) + 1],
              daysToFetch[(((k + 1) \div Len(ScanRoutineIds)) % Len(daysToFetch)) + 1],
              <<"1">>,
              [NoFields EXCEPT !.teacherId = "tA", !.sname = subjectName])

\* The stores of the family: up to MaxEntries records with subjects of LoadSubjects.
LoadStores ==
    UNION { { [k \in 1..n |-> LoadRecord(k, LoadSubjects[pick[k]])] :
                pick \in { f \in [1..n -> 1..Len(LoadSubjects)] :
                             \A i, j \in 1..n : i < j => f[i] <= f[j] } } :
            n \in 0..MaxEntries }

\* teachers/tA: no document, a limit of 0.5, of 0.125, and a NaN.
LoadLimits ==
    { [t \in TeacherIds |-> IF t = "tA" THEN doc ELSE NoDoc] :
        doc \in { NoDoc,
                  TeacherDoc(Num(Scale \div 2), "Ann", Absent),
                  TeacherDoc(Num(Scale \div 8), "Ann", Absent),
                  TeacherDoc(NaN, "Ann", Absent) } }

LoadInit ==
    /\ subjectsCol = SubjectStore
    /\ routinesCol = ScanRoutines
    /\ periodsCol \in LoadStores
    /\ teachersCol \in LoadLimits
    /\ SessionInit

LoadSpec == LoadInit /\ [][ScanNext]_vars

\* The catalog resolved on each store of a bounded family of subject stores.
CatalogNames == {Absent, "", "Ann"}
CatalogRecords == [id : TeacherIds, name : CatalogNames]

\* What subjects/{id}/teachers may list: documents with distinct ids.
TeacherLists ==
    { << >> } \cup { <<t>> : t \in CatalogRecords }
        \cup { <<pair[1], pair[2]>> :
                    pair \in { q \in CatalogRecords \X CatalogRecords : q[1].id # q[2].id } }

SubjectIds == <<"s1", "s2", "s3", "s4">>

\* The subjects collections of n documents.
CatalogStores(n) ==
    { [k \in 1..n |-> [id |-> SubjectIds[k], teachers |-> lists[k]]] :
        lists \in [1..n -> TeacherLists] }

CatalogInit ==
    /\ \E n \in 0..MaxSubjects : subjectsCol \in CatalogStores(n)
    /\ routinesCol = EmptyRoutines.routines
    /\ periodsCol = EmptyRoutines.periods
    /\ teachersCol = [t \in TeacherIds |-> NoDoc]
    /\ SessionInit

CatalogNext ==
    \/ CatalogSubjectsRead
    \/ CatalogTeachersRead

CatalogSpec == CatalogInit /\ [][CatalogNext]_vars

\* The router with RequireAuth and the login page.
AuthNext ==
    \/ AuthStateKnown
    \/ \E target \in ProtectedLocations \cup {Location(LoginPath, "")} : OpenLocation(target)
    \/ RequireAuthRedirects
    \/ \E text \in Emails : TypeEmail(text)
    \/ \E text \in Passwords : TypePassword(text)
    \/ HandleSubmit
    \/ SignInSettled

AuthSpec == Init /\ [][AuthNext]_vars

\* The same session when every read and write eventually settles.
FairSpec ==
    /\ Spec
    /\ WF_vars(CatalogSubjectsRead)
    /\ WF_vars(CatalogTeachersRead)
    /\ \A b \in 1..MaxSelections : WF_vars(BuildRoutinesRead(b))
    /\ \A b \in 1..MaxSelections : WF_vars(BuildDayRead(b))
    /\ \A f \in 1..MaxSelections : WF_vars(FetchLimitRead(f))

-----------------------------------------------------------------------------
(* Vocabulary of the properties.                                           *)

HasSelection == selectedTeacher # NoTeacher

\* The scan and the limit read of the current selection (the latest ones).
Cur == Len(builds)

\* No scan and no limit read is still in flight.
AllSettled ==
    /\ \A b \in 1..Len(builds) : builds[b].pc = "done"
    /\ \A f \in 1..Len(fetches) : fetches[f].pc = "done"

\* C1: once every request has settled, the exposed index is the one the scan
\* of the current selection built, whatever the scans of earlier selections
\* did after they were cancelled.
C1_FinalIndexIsCurrent ==
    (HasSelection /\ AllSettled /\ builds[Cur].out \in {"published", "empty"})
        => teacherSchedule = builds[Cur].scheduleMap

\* C2: with a teacher selected, the exposed index is empty or was built for
\* that teacher.
C2_IndexIsOfSelection ==
    HasSelection =>
        \/ teacherSchedule = EmptyObject
        \/ (publishedBy # 0 /\ builds[publishedBy].teacherId = selectedTeacher.value)

\* C3: while the limit read of the current selection is in flight, the session
\* holds no limit.
C3_NoLimitBeforeRead ==
    (HasSelection /\ fetches[Cur].pc = "read") => loadLimit = Null

\* The numeric loadLimit of teachers/{t} as stored, null when there is none.
StoredLimit(t) ==
    IF teachersCol[t].exists /\ teachersCol[t].loadLimit.t = "num"
    THEN teachersCol[t].loadLimit ELSE Null

\* Ready for selection n: nothing loading, no error, its index and its limit.
ReadyFor(n) ==
    /\ builds[n].pc = "done" /\ fetches[n].pc = "done"
    /\ ~loadingTeachers /\ ~loadingSchedule /\ ~limitLoading
    /\ error = Absent
    /\ teacherSchedule = builds[n].scheduleMap
    /\ loadLimit = StoredLimit(builds[n].teacherId)

\* C4: a selection whose scan and limit read both succeed, and that is not
\* replaced or cleared, eventually is Ready with its own index and limit.
C4_EventuallyReady ==
    \A n \in 1..MaxSelections :
        (HasSelection /\ Cur = n)
            ~> \/ ~HasSelection \/ Cur # n
               \/ builds[n].out = "threw" \/ fetches[n].out = "threw"
               \/ ReadyFor(n)

\* C6: when a read of the current selection's scan has failed, the session
\* reports the schedule-load error, is no longer loading, and the exposed index
\* is not the one that scan was accumulating.
C6_FailedScanDiscardsPartial ==
    (HasSelection /\ builds[Cur].out = "threw")
        => /\ error = ScheduleError
           /\ ~loadingSchedule
           /\ publishedBy # Cur

\* C6 witness: the current scan failed after it had gathered entries.
C6_Witness ==
    /\ HasSelection
    /\ builds[Cur].out = "threw"
    /\ builds[Cur].scheduleMap # EmptyObject

\* Ready as the render shows it: nothing loading and no error.
Ready == ~loadingTeachers /\ ~loadingSchedule /\ ~limitLoading /\ error = Absent

\* C7: when the scan or the limit read of the current selection has failed, the
\* session is in Error (an error is shown), never Ready, and the result of the
\* one that succeeded is not exposed.
C7_EitherFailureIsError ==
    (HasSelection /\ (builds[Cur].out = "threw" \/ fetches[Cur].out = "threw"))
        => /\ error # Absent
           /\ ~Ready
           /\ publishedBy # Cur
           /\ loadLimit = Null

\* C8: with the selection cleared and every cancelled request settled, the
\* session is idle: empty index, no limit, no loading flag set.
C8_ClearedIsIdle ==
    (~HasSelection /\ AllSettled)
        => /\ teacherSchedule = EmptyObject
           /\ loadLimit = Null
           /\ ~loadingSchedule
           /\ ~limitLoading

\* C9: when the scan of the current selection found no routines, the index is
\* empty, the summary is 0/0/0, no error is set, the loading flag is cleared
\* and no day was read.
C9_NoRoutinesGivesEmptyIndex ==
    (HasSelection /\ builds[Cur].out = "empty")
        => /\ teacherSchedule = EmptyObject
           /\ calculateWeeklyLoad(teacherSchedule) =
                [theoryCount |-> 0, labCount |-> 0, totalLoad |-> 0]
           /\ error = Absent
           /\ ~loadingSchedule
           /\ builds[Cur].pc = "done" /\ builds[Cur].ri = 0 /\ builds[Cur].di = 0

\* C9 witness: the scan found no routines while the index of an earlier
\* selection, which was not empty, was still exposed.
C9_Witness ==
    /\ HasSelection
    /\ Cur = 2
    /\ builds[2].out = "empty"
    /\ builds[1].out = "published"
    /\ builds[1].scheduleMap # EmptyObject

\* A limit as the data model allows it: absent, or a finite number above 0.
ValidLimit(x) == x = Null \/ (x.t = "num" /\ x.v > 0)

\* C10: the limit of the session and every loadLimit the session writes is
\* absent or a finite number greater than 0.
C10_LimitIsPositiveOrAbsent ==
    /\ ValidLimit(loadLimit)
    /\ \A w \in 1..Len(saves) : ValidLimit(saves[w].value)

\* The teacher reference of a record: the first of the three fields that is
\* there and not empty, Absent when none is.
FirstReference(data) ==
    IF data.teacherId \notin {Absent, ""} THEN data.teacherId
    ELSE IF data.teacher \notin {Absent, ""} THEN data.teacher
    ELSE IF data.facultyId \notin {Absent, ""} THEN data.facultyId
    ELSE Absent

\* A record is one of teacher t's: its reference is t, or its name field is t
\* (when needsRef, the name field counts only on a record that has a reference).
RecordIsOf(data, t, needsRef) ==
    \/ FirstReference(data) = t
    \/ (data.tname = t /\ (needsRef => FirstReference(data) # Absent))

\* The routines of the records of teacher t stored under (day, period p), routine
\* by routine in the order the routines are listed.
RECURSIVE RoutinesOfRecords(_, _, _, _, _)
RoutinesOfRecords(k, day, p, t, needsRef) ==
    IF k > Len(routinesCol) THEN << >>
    ELSE LET mine == SelectSeq(periodsCol, LAMBDA pd :
                        /\ pd.routine = routinesCol[k].id /\ pd.day = day
                        /\ Number(pd.id) = p /\ RecordIsOf(pd.data, t, needsRef))
         IN  [i \in 1..Len(mine) |-> routinesCol[k].id]
                \o RoutinesOfRecords(k + 1, day, p, t, needsRef)

\* The index holds one entry per record of teacher t, in the record's cell, and
\* nothing else.
IndexIsExactly(index, t, needsRef) ==
    \A day \in DOMAIN index \cup {daysToFetch[k] : k \in 1..Len(daysToFetch)} :
        \A p \in (IF Has(index, day) THEN DOMAIN index[day] ELSE {})
                    \cup {Number(periodsCol[k].id) : k \in 1..Len(periodsCol)} :
            LET cell == getCellEntries(index, day, p)
            IN  [k \in 1..Len(cell) |-> cell[k].routineId]
                    = RoutinesOfRecords(1, day, p, t, needsRef)

\* C5 as claimed: the published index holds exactly the records whose reference
\* is the selected id or whose name field is the selected id.
C5_IndexHoldsNamedRecords ==
    (HasSelection /\ builds[Cur].out = "published")
        => IndexIsExactly(teacherSchedule, selectedTeacher.value, FALSE)

\* C5 as amended: the published index holds exactly the records that have a
\* teacher reference and whose reference or name field is the selected id, each
\* under its day key and period number; a record without a reference is left out.
C5_IndexHoldsReferencedRecords ==
    (HasSelection /\ builds[Cur].out = "published")
        => IndexIsExactly(teacherSchedule, selectedTeacher.value, TRUE)

\* C5 witness: an index was published from a store that holds a record matched
\* through its name field and a record without a reference naming the teacher.
C5_Witness ==
    /\ HasSelection
    /\ builds[Cur].out = "published"
    /\ teacherSchedule # EmptyObject
    /\ \E k \in 1..Len(periodsCol) :
          /\ FirstReference(periodsCol[k].data) = Absent
          /\ periodsCol[k].data.tname = selectedTeacher.value
    /\ \E k \in 1..Len(periodsCol) :
          /\ FirstReference(periodsCol[k].data) \notin {Absent, selectedTeacher.value}
          /\ periodsCol[k].data.tname = selectedTeacher.value

-----------------------------------------------------------------------------
(* The limit writes.                                                       *)

\* Write w settles in this step, successfully or not.
WriteSettles(w) == saves[w].pc = "write" /\ saves'[w].pc = "done"
WriteSucceeds(w) == WriteSettles(w) /\ saves'[w].out = "written"
WriteFails(w) == WriteSettles(w) /\ saves'[w].out = "threw"

\* The inputs the specification names and the limit each is to leave stored.
LimitExamples ==
    << [input |-> << >>, limit |-> Null],
       [input |-> <<"0">>, limit |-> Null],
       [input |-> <<"-", "5">>, limit |-> Null],
       [input |-> <<"a", "b", "c">>, limit |-> Null],
       [input |-> <<"1", "2", ".", "5">>, limit |-> Num(12 * Scale + Scale \div 2)] >>

\* The input is a decimal numeral above zero: digits with at most one point,
\* one digit at least not being 0.
PositiveDecimal(text) ==
    /\ \A i \in 1..Len(text) : IsDigit(text[i]) \/ text[i] = "."
    /\ Cardinality({i \in 1..Len(text) : text[i] = "."}) <= 1
    /\ \E i \in 1..Len(text) : IsDigit(text[i]) /\ text[i] # "0"

\* The limit a save of the input is to leave: the number the input writes
\* out, when it is a positive one, and absent otherwise.
IsLimitOfInput(limit, text) ==
    /\ PositiveDecimal(text) => (limit.t = "num" /\ limit.v > 0 /\ NumberToString(limit) = text)
    /\ ~PositiveDecimal(text) => limit = Null
    /\ \A k \in 1..Len(LimitExamples) :
          LimitExamples[k].input = text => limit = LimitExamples[k].limit

\* C11: when the write of a saveLimit succeeds, the document of the teacher it
\* was started for holds, and the session limit is, absent for an empty,
\* non-numeric, zero or negative input and the number itself for a positive one.
C11_SaveStoresNormalizedLimit ==
    [][\A w \in 1..Len(saves) :
          (WriteSucceeds(w) /\ saves[w].kind = "save")
            => /\ teachersCol'[saves[w].teacherId].exists
               /\ IsLimitOfInput(teachersCol'[saves[w].teacherId].loadLimit, saves[w].input)
               /\ loadLimit' = teachersCol'[saves[w].teacherId].loadLimit]_vars

\* C11 witness: a saved "-5" has cleared a limit that was stored.
C11_Witness ==
    \E w \in 1..Len(saves) :
        /\ saves[w].kind = "save"
        /\ saves[w].out = "written"
        /\ saves[w].input = <<"-", "5">>
        /\ teachersCol[saves[w].teacherId].loadLimit = Null
        /\ loadLimit = Null

WriteStarts == Len(saves') = Len(saves) + 1

\* What a write of absent for the teacher of task is to do when it settles,
\* whichever of saveLimit and clearLimit made it: the store and the session
\* limit, the saving flag and the dialog.
ClearsLimit(task) ==
    /\ teachersCol' = IF task.out = "written"
                      THEN [teachersCol EXCEPT ![task.teacherId] =
                              [@ EXCEPT !.exists = TRUE, !.loadLimit = Null, !.name = task.label]]
                      ELSE teachersCol
    /\ loadLimit' = IF task.out = "written" THEN Null ELSE loadLimit
    /\ ~limitSaving'
    /\ ~limitModalOpen'

\* A write of absent is issued for the selected teacher under the display name.
IssuesClear(task) ==
    /\ task.teacherId = selectedTeacher.value
    /\ task.label = selectedTeacher.label
    /\ task.pc = "write"

\* C13 as claimed: clearLimit and a saveLimit whose input is normalized to
\* absent issue the same write and leave the same session state, the text of
\* the limit input included.
C13_ClearEqualsSaveOfAbsent ==
    [][/\ (WriteStarts /\ saves'[Len(saves')].value = Null) => IssuesClear(saves'[Len(saves')])
       /\ \A w \in 1..Len(saves) :
             (WriteSettles(w) /\ saves[w].value = Null)
                => /\ ClearsLimit(saves'[w])
                   /\ limitInputValue' = IF saves'[w].out = "written" THEN << >>
                                          ELSE limitInputValue]_vars

\* C13 as amended: clearLimit and a saveLimit whose input is normalized to
\* absent issue the same write (loadLimit absent, name = display name, merge)
\* to the document of the selected teacher and leave the same store, session
\* limit, saving flag and dialog; only the text of the limit input may differ.
C13_ClearEqualsSaveOfAbsentButInput ==
    [][/\ (WriteStarts /\ saves'[Len(saves')].value = Null) => IssuesClear(saves'[Len(saves')])
       /\ \A w \in 1..Len(saves) :
             (WriteSettles(w) /\ saves[w].value = Null) => ClearsLimit(saves'[w])]_vars

\* C13 witness: a saveLimit of a text normalized to absent was written, and
\* the text is still in the input.
C13_Witness ==
    \E w \in 1..Len(saves) :
        /\ saves[w].kind = "save"
        /\ saves[w].out = "written"
        /\ saves[w].value = Null
        /\ saves[w].input # << >>
        /\ limitInputValue = saves[w].input
        /\ loadLimit = Null

\* C14: a step changes the store only by a successful limit write, and then
\* only the loadLimit and name of the document of the teacher the write was
\* started for; no teacher document is deleted.
C14_WriteTouchesOnlyLimitAndName ==
    [][/\ UNCHANGED <<subjectsCol, routinesCol, periodsCol>>
       /\ \A t \in TeacherIds : teachersCol[t].exists => teachersCol'[t].exists
       /\ teachersCol' # teachersCol
            => \E w \in 1..Len(saves) :
                  /\ WriteSucceeds(w)
                  /\ \A t \in TeacherIds \ {saves[w].teacherId} : teachersCol'[t] = teachersCol[t]
                  /\ teachersCol'[saves[w].teacherId].dept = teachersCol[saves[w].teacherId].dept]_vars

\* C14 witness: a limit was written to a document that holds another field,
\* for a teacher who is no longer the selected one.
C14_Witness ==
    \E w \in 1..Len(saves) :
        /\ saves[w].out = "written"
        /\ teachersCol[saves[w].teacherId].dept # Absent
        /\ teachersCol[saves[w].teacherId].loadLimit = saves[w].value
        /\ selectedTeacher.value # saves[w].teacherId

-----------------------------------------------------------------------------
(* The load and the limit.                                                 *)

\* The load of the exposed index.
Summary == calculateWeeklyLoad(teacherSchedule)

\* The load is strictly above the limit; nothing is above a limit that is
\* not a number.
StrictlyAbove(total, limit) == limit.t = "num" /\ total - limit.v > 0

\* exceeds is true exactly when a limit is present and the load is strictly
\* above it.
ExceedsIsAboveLimit == exceedsLimit <=> (loadLimit # Null /\ StrictlyAbove(Summary.totalLoad, loadLimit))

\* C15 as claimed: exceeds is true exactly when the limit is present and the
\* total load is strictly greater, and the overage then reported is the total
\* load minus the limit.
C15_OverageIsDifference ==
    /\ ExceedsIsAboveLimit
    /\ exceedsLimit => Number(overageShown) = Num(Summary.totalLoad - loadLimit.v)

\* C15 as amended: exceeds is true exactly when the limit is present and the
\* total load is strictly greater (an equal load does not exceed), and the
\* overage then reported is the total load minus the limit rounded to two
\* decimals.
C15_OverageIsRoundedDifference ==
    /\ ExceedsIsAboveLimit
    /\ exceedsLimit =>
          LET shown == Number(overageShown)
              difference == Summary.totalLoad - loadLimit.v
          IN  /\ shown.t = "num"
              /\ shown.v % 10 = 0
              /\ 2 * difference - 10 < 2 * shown.v
              /\ 2 * shown.v <= 2 * difference + 10

\* C15 witness: the load exceeds a limit of 0.125 and the overage is reported.
C15_Witness ==
    /\ exceedsLimit
    /\ loadLimit = Num(Scale \div 8)
    /\ Summary.totalLoad >= Scale
    /\ overageShown # AbsentText

\* A word of a name: a maximal run of letters, digits and underscores, here
\* the one of the given length that starts at position i.
IsWordOf(s, i, length) ==
    /\ i + length - 1 <= Len(s)
    /\ \A k \in i..(i + length - 1) : IsWordChar(s[k])
    /\ i = 1 \/ ~IsWordChar(s[i - 1])
    /\ i + length - 1 = Len(s) \/ ~IsWordChar(s[i + length])

\* The name has "lab" or "laboratory" as one of its words, in any case.
HasLabWord(s) ==
    \E i \in 1..Len(s) :
        \E word \in { <<"l", "a", "b">>, <<"l", "a", "b", "o", "r", "a", "t", "o", "r", "y">> } :
            /\ i + Len(word) - 1 <= Len(s)
            /\ \A k \in 1..Len(word) : ToLower(s[i + k - 1]) = word[k]
            /\ IsWordOf(s, i, Len(word))

\* The names the specification classifies.
LabExamples ==
    << [name |-> LoadSubjects[1], lab |-> TRUE],
       [name |-> LoadSubjects[2], lab |-> TRUE],
       [name |-> LoadSubjects[3], lab |-> TRUE],
       [name |-> LoadSubjects[4], lab |-> FALSE],
       [name |-> << >>, lab |-> FALSE] >>

\* The subject names of the entries of an index, cell after cell.
RECURSIVE SubjectsOfDay(_, _)
SubjectsOfDay(dayObj, periods) ==
    IF periods = {} THEN << >>
    ELSE LET p == CHOOSE q \in periods : TRUE
         IN  [k \in 1..Len(dayObj[p]) |-> dayObj[p][k].subject]
                \o SubjectsOfDay(dayObj, periods \ {p})

RECURSIVE SubjectsOf(_, _)
SubjectsOf(index, days) ==
    IF days = {} THEN << >>
    ELSE LET d == CHOOSE e \in days : TRUE
         IN  SubjectsOfDay(index[d], DOMAIN index[d]) \o SubjectsOf(index, days \ {d})

Subjects == SubjectsOf(teacherSchedule, DOMAIN teacherSchedule)

RECURSIVE Tally(_, _)
Tally(labs, counts) ==
    IF labs = << >> THEN counts
    ELSE Tally(Tail(labs),
               IF Head(labs) THEN [counts EXCEPT !.labCount = @ + 1]
               ELSE [counts EXCEPT !.theoryCount = @ + 1])

\* The names with those at positions i and i + 1 exchanged: every order of
\* visiting is a product of such exchanges.
Exchanged(names, i) ==
    [k \in 1..Len(names) |-> IF k = i THEN names[i + 1] ELSE IF k = i + 1 THEN names[i] ELSE names[k]]

\* The entries of an index, counted directly.
NumberOfEntries(index) ==
    LET inDay(dayObj) == SumOver([p \in DOMAIN dayObj |-> Len(dayObj[p])], DOMAIN dayObj)
    IN  SumOver([d \in DOMAIN index |-> inDay(index[d])], DOMAIN index)

\* C17: the two counts add up to the number of entries of the index, the total
\* load is theoryCount + labCount * 0.5, and the counts are those of visiting
\* the entries in any order.
C17_LoadIsWeightedCount ==
    LET names == Subjects
        labs == [k \in 1..Len(names) |-> HasLabWord(names[k])]
        load == Summary
    IN  /\ load.theoryCount + load.labCount = NumberOfEntries(teacherSchedule)
        /\ 2 * load.totalLoad = 2 * Scale * load.theoryCount + Scale * load.labCount
        /\ \A i \in 0..(Len(labs) - 1) :
              LET order == IF i = 0 THEN labs ELSE Exchanged(labs, i)
                  counts == Tally(order, [theoryCount |-> 0, labCount |-> 0])
              IN  /\ counts.theoryCount = load.theoryCount
                  /\ counts.labCount = load.labCount

\* C17 witness: three theory entries and two labs give a load of 4.
C17_Witness ==
    /\ Summary.theoryCount = 3
    /\ Summary.labCount = 2
    /\ Summary.totalLoad = 4 * Scale

-----------------------------------------------------------------------------
(* The catalog.                                                            *)

\* The records under subjects/*/teachers, subject after subject.
RECURSIVE RecordsFrom(_)
RecordsFrom(k) ==
    IF k > Len(subjectsCol) THEN << >>
    ELSE subjectsCol[k].teachers \o RecordsFrom(k + 1)

TeacherRecords == RecordsFrom(1)

\* The name of the last scanned record with the id.
LastName(records, id) ==
    LET last == CHOOSE k \in 1..Len(records) :
                    /\ records[k].id = id
                    /\ \A j \in (k + 1)..Len(records) : records[j].id # id
    IN  records[last].name

\* The resolve yields one teacher per id found, named as names says, where
\* nameless holds what counts as a record without a name.
CatalogIsExactly(list, records, nameless) ==
    /\ \A i, j \in 1..Len(list) : list[i].id = list[j].id => i = j
    /\ {list[i].id : i \in 1..Len(list)} = {records[k].id : k \in 1..Len(records)}
    /\ \A i \in 1..Len(list) :
          list[i].name = IF LastName(records, list[i].id) \in nameless THEN list[i].id
                         ELSE LastName(records, list[i].id)

\* C18 as claimed: a successful resolve yields exactly one teacher per id
\* found under subjects/*/teachers, with the name of the last scanned record
\* of that id, or the id when that record has no name field.
C18_CatalogHasLastNames ==
    catalog.out = "loaded" => CatalogIsExactly(teachers, TeacherRecords, {Absent})

\* C18 as amended: a successful resolve yields exactly one teacher per id
\* found under subjects/*/teachers, with the name of the last scanned record
\* of that id, or the id when that record has no name or an empty one.
C18_CatalogHasLastNonEmptyNames ==
    catalog.out = "loaded" => CatalogIsExactly(teachers, TeacherRecords, {Absent, ""})

\* C18 witness: a teacher listed under two subjects, with a name under the
\* first and none under the second, is in the catalog once, named by the id.
C18_Witness ==
    /\ catalog.out = "loaded"
    /\ Len(subjectsCol) = 2
    /\ \E i \in 1..Len(teachers) :
          /\ teachers[i].name = teachers[i].id
          /\ \E k \in 1..Len(subjectsCol[1].teachers) :
                /\ subjectsCol[1].teachers[k].id = teachers[i].id
                /\ subjectsCol[1].teachers[k].name = "Ann"
          /\ \E k \in 1..Len(subjectsCol[2].teachers) :
                /\ subjectsCol[2].teachers[k].id = teachers[i].id
                /\ subjectsCol[2].teachers[k].name = Absent

\* C19: when a read of the resolve has failed, the catalog-load error is set,
\* the exposed list is empty whatever was gathered before, and the loading
\* flag is cleared.
C19_FailedCatalogIsEmpty ==
    catalog.out = "threw"
        => /\ error = "Failed loading teachers."
           /\ teachers = << >>
           /\ ~loadingTeachers

\* C19 witness: the read of the second subject's teachers failed after the
\* first subject's teachers were gathered.
C19_Witness ==
    /\ catalog.out = "threw"
    /\ catalog.pc = "done"
    /\ catalog.i = 2
    /\ catalog.teacherMap # << >>
    /\ teachers = << >>

-----------------------------------------------------------------------------
(* The login redirect.                                                     *)

\* The pathname a sign-in made from the login page now shown is to lead to:
\* that of the location RequireAuth redirected from, or "/" without one.
Origin == IF location.from = NoLocation THEN "/" ELSE location.from.pathname

-----------------------------------------------------------------------------
(* Cancelled scans.                                                        *)

\* Scan b, whose cancellation flag is set, takes this step.
CancelledBuildSteps(b) == builds[b].cancelled /\ builds'[b] # builds[b]

\* C21: the step of a scan whose cancellation flag is set issues no further
\* read (the read in flight settles and the scan is over), sets no error even
\* when that read failed, and publishes no index.
C21_CancelledBuildIsSilent ==
    [][\A b \in 1..Len(builds) :
          CancelledBuildSteps(b)
              => /\ builds'[b].pc = "done"
                 /\ error' = error
                 /\ teacherSchedule' = teacherSchedule
                 /\ publishedBy' = publishedBy]_vars

-----------------------------------------------------------------------------
(* The scan of a single period record.                                     *)

\* What a reference field and the name field of a period document may hold.
RefValues == {Absent, "", "tA", "tB"}
NameValues == {Absent, "tA", "tB"}

\* What the id of a period document may be: "1", "01", "0", "x", "1.5", "-2".
RecordIds == { <<"1">>, <<"0", "1">>, <<"0">>, <<"x">>, <<"1", ".", "5">>, <<"-", "2">> }

\* The stores of one period document: every combination of the three
\* reference fields and the name field under routines/r1/mon/1, and a record of
\* tA under routines/r2/fri with every id.
RecordStores ==
    { <<PeriodDoc("r1", "mon", <<"1">>,
                  [NoFields EXCEPT !.teacherId = f[1], !.teacher = f[2],
                                   !.facultyId = f[3], !.tname = f[4],
                                   !.sname = <<"M", "a", "t", "h", "s">>])>> :
        f \in RefValues \X RefValues \X RefValues \X NameValues }
    \cup
    { <<PeriodDoc("r2", "fri", id, [NoFields EXCEPT !.teacherId = "tA", !.name = <<"A", "I">>])>> :
        id \in RecordIds }

RecordInit ==
    /\ subjectsCol = SubjectStore
    /\ routinesCol = ScanRoutines
    /\ periodsCol \in RecordStores
    /\ teachersCol = [t \in TeacherIds |-> NoDoc]
    /\ SessionInit

RecordSpec == RecordInit /\ [][ScanNext]_vars

\* The scan of the current selection published the index of a one-record store.
PublishedOne ==
    /\ HasSelection
    /\ builds[Cur].out = "published"
    /\ Len(periodsCol) = 1

\* The published index holds the one record of the store, under its day.
Indexed ==
    /\ DOMAIN teacherSchedule = {periodsCol[1].day}
    /\ \E p \in DOMAIN teacherSchedule[periodsCol[1].day] :
          LET cell == teacherSchedule[periodsCol[1].day][p]
          IN  /\ DOMAIN teacherSchedule[periodsCol[1].day] = {p}
              /\ Len(cell) = 1
              /\ cell[1].routineId = periodsCol[1].routine

\* The first of the three reference fields that is present, Absent when none is.
FirstPresent(data) ==
    IF data.teacherId # Absent THEN data.teacherId
    ELSE IF data.teacher # Absent THEN data.teacher
    ELSE IF data.facultyId # Absent THEN data.facultyId
    ELSE Absent

\* C22 as claimed: the reference is the first present of teacherId, teacher,
\* facultyId; the record is indexed exactly when it has a reference and the
\* reference or the display-name field is the selected id.
C22_FirstPresentReferenceWins ==
    PublishedOne =>
        LET data == periodsCol[1].data
            t == selectedTeacher.value
        IN  IF FirstPresent(data) # Absent /\ (FirstPresent(data) = t \/ data.tname = t)
            THEN Indexed ELSE teacherSchedule = EmptyObject

\* C22 as amended: the reference is the first of teacherId, teacher, facultyId
\* that is present and not empty; a record with none is skipped even when its
\* display-name field is the selected id, and a record whose reference is
\* another id is indexed only through the display-name field.
C22_FirstNonEmptyReferenceWins ==
    PublishedOne =>
        LET data == periodsCol[1].data
            t == selectedTeacher.value
        IN  IF FirstReference(data) # Absent /\ (FirstReference(data) = t \/ data.tname = t)
            THEN Indexed ELSE teacherSchedule = EmptyObject

\* C22 witness: tA is selected and the record, whose first reference (teacher)
\* is tB while facultyId and the display name are tA, is indexed.
C22_Witness ==
    /\ PublishedOne
    /\ selectedTeacher.value = "tA"
    /\ periodsCol[1].data.teacherId = ""
    /\ periodsCol[1].data.teacher = "tB"
    /\ periodsCol[1].data.facultyId = "tA"
    /\ periodsCol[1].data.tname = "tA"
    /\ Indexed

-----------------------------------------------------------------------------
(* One write at a time.                                                    *)

\* The limit writes whose setDoc has not settled.
WritesInFlight == {w \in 1..Len(saves) : saves[w].pc = "write"}

\* C23: at most one limit write (save or clear) is in flight at any time, and
\* while one is, the saving flag that disables the Save and Clear buttons is
\* set.
C23_OneWriteInFlight ==
    /\ \A v, w \in WritesInFlight : v = w
    /\ WritesInFlight # {} => limitSaving

\* C23 witness: after a save settled, a clear is in flight with the dialog
\* open, its Save and Clear buttons disabled.
C23_Witness ==
    /\ Len(saves) = MaxWrites
    /\ saves[1].kind = "save" /\ saves[1].pc = "done"
    /\ saves[Len(saves)].kind = "clear" /\ saves[Len(saves)].pc = "write"
    /\ limitModalOpen
    /\ limitSaving

-----------------------------------------------------------------------------
(* Period keys.                                                            *)

\* A period number as the data model has it: a whole number above 0.
IsPeriodNumber(p) == p.t = "num" /\ p.v > 0 /\ p.v % Scale = 0

\* C24: every period key of the index the session exposes is a positive
\* integer, whatever the ids of the period documents in the store.
C24_PeriodKeysArePositive ==
    \A day \in DOMAIN teacherSchedule :
        \A p \in DOMAIN teacherSchedule[day] : IsPeriodNumber(p)

-----------------------------------------------------------------------------
(* Writes that outlive their selection.                                    *)

\* C25: a limit write started for one teacher that settles while another
\* teacher is selected, whose limit has been read, leaves the limit of the
\* session as it is: the value read for the teacher now selected.
C25_WriteKeepsOtherTeachersLimit ==
    [][\A w \in 1..Len(saves) :
          (/\ WriteSettles(w)
           /\ HasSelection
           /\ selectedTeacher.value # saves[w].teacherId
           /\ fetches[Len(fetches)].out = "read")
              => loadLimit' = loadLimit]_vars

====
